---- MODULE Spec2Model ----
(***************************************************************************)
(* A model of unbapi, the client library for the UnbelievaBoat HTTP API:   *)
(* the three listing generators (fetch_leaderboard, fetch_items,           *)
(* fetch_inventory), the status-code checks every request path repeats,    *)
(* the identifier handling of the entry points, the "Infinity" coding of   *)
(* balances, and the parent an Item is built with and deletes through.     *)
(*                                                                         *)
(* The caller is synchronous: it starts one operation at a time.  A plain  *)
(* operation is one step (arguments in, request out, response in, result). *)
(* A listing operation is a Python generator: its position (gpc) and its   *)
(* locals (page, yields, data, idx) are state, the caller's next() is      *)
(* Resume, and the arrival of the response to the page request that a      *)
(* next() is blocked on is Respond.                                        *)
(***************************************************************************)
EXTENDS Integers, Sequences, FiniteSets, TLC

VARIABLES
    op,      \* the operation called last ("none" before any call)
    arg,     \* the identifier argument the caller passed (NoArg if none; the
             \* cash and bank arguments for the two balance operations)
    limit,   \* listing: the limit argument (NoneV or an int value)
    gpc,     \* listing: the generator's position
    page,    \* listing: local `page`
    yields,  \* listing: local `yields`
    data,    \* listing: local `data`, the body of the page being iterated
    idx,     \* listing: how many elements of data the for loop has taken
    reqs,    \* the HTTP requests issued by the operation, in order
    resps,   \* the HTTP responses it received, in order
    out,     \* listing: the elements handed to the caller (run-length coded)
    result   \* the outcome of the operation (return value or exception)

vars == <<op, arg, limit, gpc, page, yields, data, idx, reqs, resps, out, result>>

(***************************************************************************)
(* Bounds of the model.                                                    *)
(***************************************************************************)
\* total_pages values a server reports are 0..MaxPages
MaxPages == 2
\* a server may return up to MaxExtra elements more than the page size asked
MaxExtra == 1
\* identifier strings have at most MaxStrLen characters
MaxStrLen == 2

(***************************************************************************)
(* Python values.                                                          *)
(***************************************************************************)
NoneV == [t |-> "none"]
IntV(n) == [t |-> "int", n |-> n]
StrV(s) == [t |-> "str", s |-> s]
\* an object with an attribute `id` of value a, and one with no such attribute
ObjV(a) == [t |-> "obj", has |-> TRUE, id |-> a]
NoIdObj == [t |-> "obj", has |-> FALSE]
NoArg == [t |-> "noarg"]
\* math.inf, the "unlimited" balance
InfV == [t |-> "inf"]
\* the truth value Python gives a value in `x if v else y`
Truthy(v) == (v.t = "int" /\ v.n # 0) \/ (v.t = "str" /\ v.s # <<>>) \/ v.t \in {"obj", "inf"}

(***************************************************************************)
(* Identifier arguments.  A string is a sequence of characters.            *)
(***************************************************************************)
Chars == {"0", "7", "a", "-", " ", "_"}
RECURSIVE StringsOfLen(_)
StringsOfLen(k) ==
    IF k = 0 THEN {<<>>}
    ELSE {Append(s, c) : s \in StringsOfLen(k - 1), c \in Chars}
Strings == UNION {StringsOfLen(k) : k \in 0..MaxStrLen}

DigitChars == <<"0", "1", "2", "3", "4", "5", "6", "7", "8", "9">>
IsDigit(c) == \E d \in 1..Len(DigitChars) : DigitChars[d] = c
DigitValue(c) == (CHOOSE d \in 1..Len(DigitChars) : DigitChars[d] = c) - 1
IsSpace(c) == c = " "

\* str.strip(), as int() applies it to its argument
RECURSIVE LStrip(_)
LStrip(s) == IF s # <<>> /\ IsSpace(s[1]) THEN LStrip(Tail(s)) ELSE s
RECURSIVE RStrip(_)
RStrip(s) ==
    IF s # <<>> /\ IsSpace(s[Len(s)]) THEN RStrip(SubSeq(s, 1, Len(s) - 1)) ELSE s

\* The digits of an int literal: digits, with single underscores between them.
DigitsOk(s) ==
    /\ s # <<>>
    /\ \A i \in 1..Len(s) :
        \/ IsDigit(s[i])
        \/ s[i] = "_" /\ 1 < i /\ i < Len(s) /\ IsDigit(s[i - 1]) /\ IsDigit(s[i + 1])
RECURSIVE DigitsValue(_, _)
DigitsValue(s, acc) ==
    IF s = <<>> THEN acc
    ELSE IF s[1] = "_" THEN DigitsValue(Tail(s), acc)
    ELSE DigitsValue(Tail(s), 10 * acc + DigitValue(s[1]))

\* int(s) for a str s: surrounding whitespace is dropped, a sign is read,
\* and the rest must be decimal digits; anything else is a ValueError.
IntOfStr(s) ==
    LET body == RStrip(LStrip(s))
        neg == body # <<>> /\ body[1] = "-"
        digits == IF body # <<>> /\ body[1] \in {"-", "+"} THEN Tail(body) ELSE body
    IN IF DigitsOk(digits)
       THEN [ok |-> TRUE, n |-> IF neg THEN 0 - DigitsValue(digits, 0) ELSE DigitsValue(digits, 0)]
       ELSE [ok |-> FALSE, n |-> 0]

IdInts == {7, 70}
\* what the `id` attribute of an object may hold: an int, a str, None, or
\* another object that has an id of its own
AttrValues == {IntV(7), StrV(<<"7">>), StrV(<<"a">>), NoneV, ObjV(IntV(7))}
IdArgs ==
    {IntV(n) : n \in IdInts} \cup {StrV(s) : s \in Strings}
        \cup {ObjV(a) : a \in AttrValues} \cup {NoIdObj, NoneV}

\* the page size the code never exceeds (the literal 1000 of the params dict)
MaxPerPage == 1000

(***************************************************************************)
(* HTTP responses.  A body is absent (not JSON), or a JSON object that may *)
(* hold a "message" field and may hold the fields the operation reads      *)
(* (payload).  For a page of a listing, n is the length of the element     *)
(* array and total the value of "total_pages"; for the inventory quantity  *)
(* lookup, quantity is the value of "quantity"; for a user object, user    *)
(* holds the values of "rank" (NoArg when the body has no such field),     *)
(* "cash", "bank" and "total".                                             *)
(***************************************************************************)
Statuses == {200, 400, 401, 403, 404, 500}
Messages == {"Unknown item", "Missing Access"}

UserData(rk, c, b, t) == [rank |-> rk, cash |-> c, bank |-> b, total |-> t]
NoUserData == UserData(NoArg, NoArg, NoArg, NoArg)
Body(js, hm, m, pl, n, T, q) ==
    [json |-> js, hasmsg |-> hm, message |-> m, payload |-> pl,
     n |-> n, total |-> T, quantity |-> q, user |-> NoUserData]
NoBody == Body(FALSE, FALSE, "", FALSE, 0, 0, NoneV)
ErrBody(m) == Body(TRUE, TRUE, m, FALSE, 0, 0, NoneV)
EmptyObj == Body(TRUE, FALSE, "", FALSE, 0, 0, NoneV)
DataBody == Body(TRUE, FALSE, "", TRUE, 0, 0, NoneV)
DataMsgBody(m) == Body(TRUE, TRUE, m, TRUE, 0, 0, NoneV)
PageBody(n, T) == Body(TRUE, FALSE, "", TRUE, n, T, NoneV)
QuantityBody(q) == Body(TRUE, FALSE, "", TRUE, 0, 0, q)
UserBody(u) == [DataBody EXCEPT !.user = u]

PlainBodies == {NoBody, EmptyObj} \cup {ErrBody(m) : m \in Messages}
Response(st, b) == [status |-> st, body |-> b]

\* requests.Response.ok: the status is no 4xx and no 5xx
Ok(r) == ~(400 <= r.status /\ r.status < 600)

(***************************************************************************)
(* Outcomes of an operation.                                               *)
(***************************************************************************)
Raise(e, m) == [kind |-> "raise", exc |-> e, msg |-> m, value |-> NoneV]
Return(v) == [kind |-> "return", exc |-> "", msg |-> "", value |-> v]
Pending == [kind |-> "pending", exc |-> "", msg |-> "", value |-> NoneV]
StopIteration == [kind |-> "stop", exc |-> "", msg |-> "", value |-> NoneV]

\* response.json().get("message", default)
GetMessage(r, default) == IF r.body.hasmsg THEN r.body.message ELSE default

\* The four checks that follow every request but fetch_guild's.  The result
\* is the exception raised, or Pending when the code goes on to the body.
CheckStatus(r) ==
    IF r.status \in {401, 403, 404} /\ ~r.body.json THEN Raise("JSONDecodeError", "")
    ELSE IF r.status = 401 THEN Raise("InvalidToken", GetMessage(r, "Token is not valid"))
    ELSE IF r.status = 403
        THEN Raise("Forbidden", GetMessage(r, "This App is not allowed to access this resource"))
    ELSE IF r.status = 404 THEN Raise("NotFound", GetMessage(r, "Unkown Guild"))
    ELSE IF ~Ok(r) /\ ~r.body.json THEN Raise("JSONDecodeError", "")
    ELSE IF ~Ok(r) THEN Raise("unbapiException", GetMessage(r, "HTTP request failed."))
    ELSE Pending


(***************************************************************************)
(* The plain operations: one call, at most one request, one result.        *)
(***************************************************************************)
\* A request: the operation, the identifier argument as it is put in the
\* path (NoArg if the operation takes none), the origin-inventory user as it
\* is put in the JSON body (add_item only), and the query parameters page
\* and limit (0 for the operations that send neither).  guild is the id in
\* the /guilds/{...} part of the path, and body holds what else the
\* operation sends (the balances, cascade_delete), NoArg if nothing.
\* App, SelfGuild and SelfUser are the objects the caller holds and calls the
\* methods of (SelfUser is a user of SelfGuild).
App == [kind |-> "Application", id |-> IntV(1)]
SelfGuild == [kind |-> "PartialGuild", id |-> IntV(11)]
SelfUser == [kind |-> "PartialUser", id |-> IntV(22)]
Request(o, ident, origin, pg, size) ==
    [op |-> o, ident |-> ident, origin |-> origin, page |-> pg, limit |-> size,
     guild |-> IF o = "fetch_guild" THEN ident ELSE SelfGuild.id, body |-> NoArg]

\* An object the library constructs: its class, the id it stores, and the
\* object passed as its parent (application or guild).
Entity(kind, id, parent) == [t |-> "entity", kind |-> kind, id |-> id, parent |-> parent]

Outcome(rq, rs, res) == [reqs |-> rq, resps |-> rs, result |-> res]

\* The identifier handling at the head of every entry point:
\*   if type(x) == str: x = int(x)
\*   elif not type(x) == int:
\*       try: x = x.id
\*       except(AttributeError): raise TypeError(...)
Mutant_NormalizeId_NoParse(param, v) ==
    IF v.t \notin {"int", "str"}
    THEN IF v.t = "obj" /\ v.has THEN Return(v.id)
         ELSE Raise("TypeError", param \o " object doesn't have an id attribute.")
    ELSE Return(v)

NormalizeId(param, v) ==
    IF v.t = "str"
    THEN IF IntOfStr(v.s).ok THEN Return(IntV(IntOfStr(v.s).n))
         ELSE Raise("ValueError", "")
    ELSE IF v.t # "int"
    THEN IF v.t = "obj" /\ v.has THEN Return(v.id)
         ELSE Raise("TypeError", param \o " object doesn't have an id attribute.")
    ELSE Return(v)

\* int(x): an int is itself, a str is parsed, anything else is a TypeError
IntOf(v) ==
    IF v.t = "int" THEN Return(v)
    ELSE IF v.t = "str"
    THEN IF IntOfStr(v.s).ok THEN Return(IntV(IntOfStr(v.s).n))
         ELSE Raise("ValueError", "")
    ELSE Raise("TypeError", "")

\* response.json() followed by the constructor's reads of the body's fields
FromBody(r, res) ==
    IF ~r.body.json THEN Raise("JSONDecodeError", "")
    ELSE IF ~r.body.payload THEN Raise("KeyError", "")
    ELSE res

\* the status checks, then what the operation does with a response they pass
AfterChecks(r, res) == IF CheckStatus(r).kind = "raise" THEN CheckStatus(r) ELSE res

PlainResponses ==
    {Response(st, b) : st \in Statuses,
        b \in PlainBodies \cup {DataBody, DataMsgBody("Unknown item")}}
Quantities == {IntV(3), StrV(<<"7">>), StrV(<<"a">>)}
QuantityResponses ==
    {Response(st, b) : st \in Statuses,
        b \in PlainBodies \cup {QuantityBody(q) : q \in Quantities}}
Origins == {NoneV, IntV(7), StrV(<<"7">>), ObjV(IntV(7))}

\* Application.get_guild
GetGuild(a) ==
    LET id == NormalizeId("guild_id", a) IN
    IF id.kind = "raise" THEN Outcome(<<>>, <<>>, id)
    ELSE Outcome(<<>>, <<>>, Return(Entity("PartialGuild", id.value, App)))

\* Application.fetch_guild: only 401 and 404 are looked at
FetchGuild(a, r) ==
    LET id == NormalizeId("guild_id", a) IN
    IF id.kind = "raise" THEN Outcome(<<>>, <<>>, id)
    ELSE Outcome(<<Request("fetch_guild", id.value, NoArg, 0, 0)>>, <<r>>,
            IF r.status \in {401, 404} /\ ~r.body.json THEN Raise("JSONDecodeError", "")
            ELSE IF r.status = 401
                THEN Raise("InvalidToken", GetMessage(r, "Token is not valid"))
            ELSE IF r.status = 404 THEN Raise("NotFound", GetMessage(r, "Unkown Guild"))
            ELSE FromBody(r, Return(Entity("Guild", id.value, App))))

\* PartialGuild.fetch_permissions
FetchPermissions(r) ==
    Outcome(<<Request("fetch_permissions", NoArg, NoArg, 0, 0)>>, <<r>>,
        AfterChecks(r, FromBody(r, Return(Entity("GuildPermissions", NoneV, SelfGuild)))))

\* PartialGuild.get_user
GetUser(a) ==
    LET id == NormalizeId("user_id", a) IN
    IF id.kind = "raise" THEN Outcome(<<>>, <<>>, id)
    ELSE Outcome(<<>>, <<>>, Return(Entity("PartialUser", id.value, SelfGuild)))

\* The balances.  On the wire the unlimited balance is the string
\* "Infinity":  cash if not cash == math.inf else "Infinity"
InfinityLiteral == StrV(<<"I", "n", "f", "i", "n", "i", "t", "y">>)
BalanceValues == {IntV(0), IntV(5), IntV(0 - 5), InfV}
Mutant_WireBalance_Raw(v) == v

WireBalance(v) == IF v = InfV THEN InfinityLiteral ELSE v

\* data["cash"] if not data["cash"] == "Infinity" else math.inf
BalanceOf(w) == IF w = InfinityLiteral THEN InfV ELSE w

\* int(data["rank"]) if data.get("rank") else None
Mutant_RankOf_Required(rk) == IntOf(rk)

RankOf(rk) == IF Truthy(rk) THEN IntOf(rk) ELSE Return(NoneV)

\* User(id, guild, token, response.json())
UserEntity(id, parent, rk, u) ==
    [t |-> "entity", kind |-> "User", id |-> id, parent |-> parent, rank |-> rk,
     cash |-> BalanceOf(u.cash), bank |-> BalanceOf(u.bank), total |-> BalanceOf(u.total)]
MakeUser(id, parent, r) ==
    IF ~r.body.json THEN Raise("JSONDecodeError", "")
    ELSE IF RankOf(r.body.user.rank).kind = "raise" THEN RankOf(r.body.user.rank)
    ELSE IF ~r.body.payload THEN Raise("KeyError", "")
    ELSE Return(UserEntity(id, parent, RankOf(r.body.user.rank).value, r.body.user))

\* The user objects a server answers with: any of the rank values next to
\* fixed balances (fetch_user), any balances with and without a rank (the
\* balance operations).
Ranks == {NoArg, NoneV, IntV(0), IntV(3), StrV(<<"3">>), StrV(<<"a">>)}
WireValues == {WireBalance(v) : v \in BalanceValues}
FetchUserResponses ==
    {Response(st, b) : st \in Statuses,
        b \in PlainBodies \cup
            {UserBody(UserData(rk, c, IntV(5), c)) : rk \in Ranks, c \in {IntV(5), InfinityLiteral}}}
BalanceResponses ==
    {Response(st, b) : st \in Statuses,
        b \in PlainBodies \cup
            {UserBody(UserData(rk, c, b, t)) :
                rk \in {NoArg, IntV(3)}, c \in WireValues, b \in WireValues, t \in WireValues}}

\* PartialGuild.fetch_user
FetchUser(a, r) ==
    LET id == NormalizeId("user_id", a) IN
    IF id.kind = "raise" THEN Outcome(<<>>, <<>>, id)
    ELSE Outcome(<<Request("fetch_user", id.value, NoArg, 0, 0)>>, <<r>>,
            AfterChecks(r, MakeUser(id.value, SelfGuild, r)))

\* `self` in the method that builds an Item: the four methods pass it to
\* Item(...) as the item's guild
ItemSources == {"fetch_item", "fetch_items", "fetch_inventory", "add_item"}
Self(o) == IF o \in {"fetch_inventory", "add_item"} THEN SelfUser ELSE SelfGuild

\* Item(item_id if type(item_id) == int else int(item_id), self, token, response.json())
MakeItem(id, parent, r) ==
    IF IntOf(id).kind = "raise" THEN IntOf(id)
    ELSE FromBody(r, Return(Entity("Item", IntOf(id).value, parent)))

\* PartialGuild.fetch_item
FetchItem(a, r) ==
    LET id == NormalizeId("item_id", a) IN
    IF id.kind = "raise" THEN Outcome(<<>>, <<>>, id)
    ELSE Outcome(<<Request("fetch_item", id.value, NoArg, 0, 0)>>, <<r>>,
            AfterChecks(r, MakeItem(id.value, Self("fetch_item"), r)))

\* PartialUser.update_balance and PartialUser.set_balance
Balances(cash, bank) == [t |-> "balances", cash |-> cash, bank |-> bank]
BalanceRequest(o, a) ==
    [Request(o, NoArg, NoArg, 0, 0) EXCEPT
        !.body = [cash |-> WireBalance(a.cash), bank |-> WireBalance(a.bank)]]
UpdateBalance(a, r) ==
    Outcome(<<BalanceRequest("update_balance", a)>>, <<r>>,
        AfterChecks(r, MakeUser(SelfUser.id, SelfGuild, r)))
SetBalance(a, r) ==
    Outcome(<<BalanceRequest("set_balance", a)>>, <<r>>,
        AfterChecks(r, MakeUser(SelfUser.id, SelfGuild, r)))

\* PartialUser.fetch_item_quantity: the 404 "Unknown item" test comes first
Mutant_FetchItemQuantity_Any404(a, r) ==
    LET id == NormalizeId("item_id", a) IN
    IF id.kind = "raise" THEN Outcome(<<>>, <<>>, id)
    ELSE Outcome(<<Request("fetch_item_quantity", id.value, NoArg, 0, 0)>>, <<r>>,
            IF r.status = 404 /\ ~r.body.json THEN Raise("JSONDecodeError", "")
            ELSE IF r.status = 404 THEN Return(IntV(0))
            ELSE AfterChecks(r, FromBody(r, IntOf(r.body.quantity))))

FetchItemQuantity(a, r) ==
    LET id == NormalizeId("item_id", a) IN
    IF id.kind = "raise" THEN Outcome(<<>>, <<>>, id)
    ELSE Outcome(<<Request("fetch_item_quantity", id.value, NoArg, 0, 0)>>, <<r>>,
            IF r.status = 404 /\ ~r.body.json THEN Raise("JSONDecodeError", "")
            ELSE IF r.status = 404 /\ r.body.hasmsg /\ r.body.message = "Unknown item"
                THEN Return(IntV(0))
            ELSE AfterChecks(r, FromBody(r, IntOf(r.body.quantity))))

\* PartialUser.add_item: the item id goes into the JSON body (as str(item_id))
\* and origin_inventory_user_id as it was passed; a value json cannot encode
\* stops the call before it sends
AddItem(a, origin, r) ==
    LET id == NormalizeId("item_id", a) IN
    IF id.kind = "raise" THEN Outcome(<<>>, <<>>, id)
    ELSE IF origin.t = "obj" THEN Outcome(<<>>, <<>>, Raise("TypeError", ""))
    ELSE Outcome(<<Request("add_item", id.value, origin, 0, 0)>>, <<r>>,
            AfterChecks(r, MakeItem(id.value, Self("add_item"), r)))

\* PartialUser.remove_item
RemoveItem(a, r) ==
    LET id == NormalizeId("item_id", a) IN
    IF id.kind = "raise" THEN Outcome(<<>>, <<>>, id)
    ELSE Outcome(<<Request("remove_item", id.value, NoArg, 0, 0)>>, <<r>>,
            AfterChecks(r, Return(NoneV)))

\* An Item the caller holds, as the operation o built it.
HeldItem(o) == Entity("Item", IntV(33), Self(o))
ItemArg(o, inc) ==
    [t |-> "item", item |-> HeldItem(o), source |-> o, include_inventories |-> inc]

\* Item.delete: DELETE /guilds/{self.guild.id}/items/{self.id} with
\* cascade_delete = 'true' if include_inventories else 'false'
Delete(a, r) ==
    Outcome(<<[Request("delete", a.item.id, NoArg, 0, 0) EXCEPT
                !.guild = a.item.parent.id,
                !.body = [cascade_delete |->
                            IF a.include_inventories THEN "true" ELSE "false"]]>>,
        <<r>>, AfterChecks(r, Return(NoneV)))

(***************************************************************************)
(* The listing generators.                                                 *)
(***************************************************************************)
ListingOps == {"fetch_leaderboard", "fetch_items", "fetch_inventory"}
LimitValues == {0, 1, 10, 1500}
Limits == {NoneV} \cup {IntV(n) : n \in LimitValues}

\* "limit": limit - yields if limit and limit - yields < 1000 else 1000
Mutant_PageSize_NoRemainder(lim, y) ==
    IF lim.t = "int" /\ lim.n # 0 /\ lim.n < MaxPerPage THEN lim.n ELSE MaxPerPage

PageSize(lim, y) ==
    IF lim.t = "int" /\ lim.n # 0 /\ lim.n - y < MaxPerPage THEN lim.n - y ELSE MaxPerPage

\* while limit == None or yields < limit
LoopTest(lim, y) == lim = NoneV \/ y < lim.n

\* if limit != None and yields >= limit: break
Mutant_LimitReached_OffByOne(lim, y) == lim # NoneV /\ y > lim.n

LimitReached(lim, y) == lim # NoneV /\ y >= lim.n

\* if page > data["total_pages"]: break
Mutant_PastLastPage_OffByOne(pg, dat) == pg > dat.total + 1

PastLastPage(pg, dat) == pg > dat.total

\* for user in data["users"]: the loop goes on while i of the elements are taken
\* and the array holds more
Mutant_HasNext_DropsLast(i, dat) == i + 1 < dat.n

HasNext(i, dat) == i < dat.n

\* The elements handed to the caller, in order.  Element i of the k-th
\* response is the pair (k, i); a run of consecutive elements of one
\* response is kept as one segment [k, from, to].
Yielded(o, k, i) ==
    IF o # <<>> /\ o[Len(o)].k = k /\ o[Len(o)].to + 1 = i
    THEN [o EXCEPT ![Len(o)].to = i]
    ELSE Append(o, [k |-> k, from |-> i, to |-> i])

\* The sizes of the element array a server may answer a request for `size`
\* elements with: none, one, as many as asked, and more than asked.
PageLengths(size) == {0, 1, size, size + MaxExtra}

ListResponses(size) ==
    {Response(st, b) : st \in Statuses,
        b \in PlainBodies \cup {PageBody(n, T) : n \in PageLengths(size), T \in 0..MaxPages}}

\* Lines 135-136 and the loop head 115: page += 1, leave the loop when the
\* page is past total_pages or the while test fails, else go round again.
Mutant_AfterFor_NoAdvance(lim, pg, y, dat) ==
    IF PastLastPage(pg, dat) \/ ~LoopTest(lim, y)
    THEN [gpc |-> "done", page |-> pg]
    ELSE [gpc |-> "request", page |-> pg]

AfterFor(lim, pg, y, dat) ==
    IF PastLastPage(pg + 1, dat) \/ ~LoopTest(lim, y)
    THEN [gpc |-> "done", page |-> pg + 1]
    ELSE [gpc |-> "request", page |-> pg + 1]

\* The generator leaves the for loop: it ends, or issues the next request.
LeaveFor(y, dat) ==
    LET nxt == AfterFor(limit, page, y, dat) IN
    /\ gpc' = nxt.gpc
    /\ page' = nxt.page
    /\ yields' = y
    /\ data' = dat
    /\ idx' = 0
    /\ out' = out
    /\ result' = IF nxt.gpc = "done" THEN StopIteration ELSE result
    /\ reqs' = IF nxt.gpc = "request"
               THEN Append(reqs, Request(op, NoArg, NoArg, nxt.page, PageSize(limit, y)))
               ELSE reqs

\* The generator reaches `yield` with element i of the current page.
YieldElement(y, dat, i) ==
    /\ gpc' = "yielded"
    /\ idx' = i
    /\ out' = Yielded(out, Len(resps'), i)
    /\ yields' = y
    /\ data' = dat
    /\ UNCHANGED <<page, reqs, result>>

\* The generator dies with exception e.
GenRaise(e) ==
    /\ gpc' = "raised"
    /\ result' = e
    /\ UNCHANGED <<page, yields, data, idx, reqs, out>>

\* No call is in progress (the generator locals hold nothing yet).
Idle ==
    /\ op = "none" /\ arg = NoArg /\ limit = NoneV /\ gpc = "none"
    /\ page = 0 /\ yields = 0 /\ data = PageBody(0, 0) /\ idx = 0
    /\ reqs = <<>> /\ resps = <<>> /\ out = <<>> /\ result = Pending

Init == Idle

\* The caller calls a listing operation: a generator object is made and no
\* line of the body has run yet.
Mutant_CallListing_Eager ==
    /\ Idle
    /\ \E o \in ListingOps, lim \in Limits :
        /\ op' = o
        /\ limit' = lim
        /\ gpc' = "request"
        /\ page' = 1
        /\ reqs' = <<Request(o, NoArg, NoArg, 1, PageSize(lim, 0))>>
        /\ UNCHANGED <<arg, yields, data, idx, resps, out, result>>

CallListing ==
    /\ Idle
    /\ \E o \in ListingOps, lim \in Limits :
        /\ op' = o
        /\ limit' = lim
        /\ gpc' = "created"
        /\ UNCHANGED <<arg, page, yields, data, idx, reqs, resps, out, result>>

\* The caller asks for the next element: the generator runs from where it
\* stands to its next yield, to its end, or to the point where it waits for
\* the response to a page request.
Resume ==
    /\ gpc \in {"created", "yielded"}
    /\ UNCHANGED <<op, arg, limit, resps>>
    /\ IF gpc = "created"
       THEN \* lines 113-115: page = 1, yields = 0, the first while test
            /\ page' = 1
            /\ yields' = 0
            /\ UNCHANGED <<data, idx, out>>
            /\ IF LoopTest(limit, 0)
               THEN /\ gpc' = "request"
                    /\ reqs' = Append(reqs, Request(op, NoArg, NoArg, 1, PageSize(limit, 0)))
                    /\ result' = result
               ELSE /\ gpc' = "done"
                    /\ reqs' = reqs
                    /\ result' = StopIteration
       ELSE \* lines 133-134, then the next element or the end of the for loop
            IF ~LimitReached(limit, yields + 1) /\ HasNext(idx, data)
            THEN YieldElement(yields + 1, data, idx + 1)
            ELSE LeaveFor(yields + 1, data)

\* The response r to the page request arrives: lines 124-131.
Received(r) ==
    /\ resps' = Append(resps, r)
    /\ IF CheckStatus(r).kind = "raise" THEN GenRaise(CheckStatus(r))
       ELSE IF ~r.body.json THEN GenRaise(Raise("JSONDecodeError", ""))
       ELSE IF ~r.body.payload THEN GenRaise(Raise("KeyError", ""))
       ELSE IF HasNext(0, r.body) THEN YieldElement(yields, r.body, 1)
       ELSE LeaveFor(yields, r.body)
Respond ==
    /\ gpc = "request"
    /\ UNCHANGED <<op, arg, limit>>
    /\ \E r \in ListResponses(reqs[Len(reqs)].limit) : Received(r)

\* The caller is done with the operation (it has its result, or it drops the
\* generator where it is suspended) and is free to make the next call.
Close ==
    /\ op # "none"
    /\ gpc # "request"
    /\ op' = "none" /\ arg' = NoArg /\ limit' = NoneV /\ gpc' = "none"
    /\ page' = 0 /\ yields' = 0 /\ data' = PageBody(0, 0) /\ idx' = 0
    /\ reqs' = <<>> /\ resps' = <<>> /\ out' = <<>> /\ result' = Pending

\* A plain operation runs from call to result in one step.
Finish(o, a, outcome) ==
    /\ op' = o
    /\ arg' = a
    /\ reqs' = outcome.reqs
    /\ resps' = outcome.resps
    /\ result' = outcome.result
    /\ UNCHANGED <<limit, gpc, page, yields, data, idx, out>>

get_guild ==
    /\ Idle
    /\ \E a \in IdArgs : Finish("get_guild", a, GetGuild(a))
fetch_guild ==
    /\ Idle
    /\ \E a \in IdArgs, r \in PlainResponses : Finish("fetch_guild", a, FetchGuild(a, r))
fetch_permissions ==
    /\ Idle
    /\ \E r \in PlainResponses : Finish("fetch_permissions", NoArg, FetchPermissions(r))
get_user ==
    /\ Idle
    /\ \E a \in IdArgs : Finish("get_user", a, GetUser(a))
fetch_user ==
    /\ Idle
    /\ \E a \in IdArgs, r \in FetchUserResponses : Finish("fetch_user", a, FetchUser(a, r))
fetch_item ==
    /\ Idle
    /\ \E a \in IdArgs, r \in PlainResponses : Finish("fetch_item", a, FetchItem(a, r))
update_balance ==
    /\ Idle
    /\ \E c \in BalanceValues, b \in BalanceValues, r \in BalanceResponses :
        Finish("update_balance", Balances(c, b), UpdateBalance(Balances(c, b), r))
set_balance ==
    /\ Idle
    /\ \E c \in BalanceValues, b \in BalanceValues, r \in BalanceResponses :
        Finish("set_balance", Balances(c, b), SetBalance(Balances(c, b), r))
fetch_item_quantity ==
    /\ Idle
    /\ \E a \in IdArgs, r \in QuantityResponses :
        Finish("fetch_item_quantity", a, FetchItemQuantity(a, r))
add_item ==
    /\ Idle
    /\ \E a \in IdArgs, o \in Origins, r \in PlainResponses :
        Finish("add_item", a, AddItem(a, o, r))
remove_item ==
    /\ Idle
    /\ \E a \in IdArgs, r \in PlainResponses : Finish("remove_item", a, RemoveItem(a, r))
delete ==
    /\ Idle
    /\ \E o \in ItemSources, inc \in BOOLEAN, r \in PlainResponses :
        Finish("delete", ItemArg(o, inc), Delete(ItemArg(o, inc), r))

Next ==
    \/ get_guild
    \/ fetch_guild
    \/ fetch_permissions
    \/ get_user
    \/ fetch_user
    \/ fetch_item
    \/ update_balance
    \/ set_balance
    \/ fetch_item_quantity
    \/ add_item
    \/ remove_item
    \/ delete
    \/ CallListing
    \/ Resume
    \/ Respond
    \/ Close

Spec == Init /\ [][Next]_vars

(***************************************************************************)
(* A caller that consumes every listing to its end, against a server whose *)
(* responses all succeed and report one total_pages.  requests.get blocks  *)
(* until the response is there, so a request that is sent is answered      *)
(* (WF on RespondSame); the caller's for loop calls next() again as long   *)
(* as the generator has not ended (WF on Resume).                          *)
(***************************************************************************)
RespondSame ==
    /\ gpc = "request"
    /\ UNCHANGED <<op, arg, limit>>
    /\ \E r \in ListResponses(reqs[Len(reqs)].limit) :
        /\ Ok(r) /\ r.body.json /\ r.body.payload
        /\ resps # <<>> => r.body.total = resps[1].body.total
        /\ Received(r)
CloseEnded == gpc = "done" /\ Close
ConsumeNext ==
    \/ CallListing
    \/ Resume
    \/ RespondSame
    \/ CloseEnded
ConsumeSpec == Init /\ [][ConsumeNext]_vars /\ WF_vars(Resume) /\ WF_vars(RespondSame)

(***************************************************************************)
(* A server that holds a fixed ordered collection of N items and answers   *)
(* the query parameters (page p, limit s) of a request with the items      *)
(* (p-1)*s+1 .. p*s of the collection and total_pages = ceil(N/s).  The    *)
(* collection is fixed for a whole iteration: each response is the answer  *)
(* of one N to every request so far.                                       *)
(***************************************************************************)
CollectionSizes == {0, 1, 10, 1000, 1001, 1500, 2000}
CeilDiv(a, b) == (a + b - 1) \div b
\* how many of the items (p-1)*s+1 .. p*s a collection of N items holds
SliceLen(N, p, s) ==
    IF N <= (p - 1) * s THEN 0
    ELSE IF N >= p * s THEN s
    ELSE N - (p - 1) * s
Answer(N, rq) ==
    Response(200, PageBody(SliceLen(N, rq.page, rq.limit), CeilDiv(N, rq.limit)))
\* the responses so far are those of a collection of N items
Served(N) == \A k \in 1..Len(resps) : resps[k] = Answer(N, reqs[k])
RespondFixed ==
    /\ gpc = "request"
    /\ UNCHANGED <<op, arg, limit>>
    /\ \E N \in CollectionSizes :
        /\ Served(N)
        /\ Received(Answer(N, reqs[Len(reqs)]))
ServerNext ==
    \/ CallListing
    \/ Resume
    \/ RespondFixed
    \/ Close
ServerSpec == Init /\ [][ServerNext]_vars

(***************************************************************************)
(* Properties.                                                             *)
(***************************************************************************)
Min(a, b) == IF a < b THEN a ELSE b
Max(a, b) == IF a < b THEN b ELSE a
Listing == op \in ListingOps

\* how many elements the caller has been handed
RECURSIVE Count(_)
Count(o) == IF o = <<>> THEN 0 ELSE o[1].to - o[1].from + 1 + Count(Tail(o))
\* how many of them came from the responses before the k-th
RECURSIVE CountBefore(_, _)
CountBefore(o, k) ==
    IF o = <<>> THEN 0
    ELSE (IF o[1].k < k THEN o[1].to - o[1].from + 1 ELSE 0) + CountBefore(Tail(o), k)
\* the element arrays of the responses rs, one after the other (the first
\* response has number k)
RECURSIVE Concat(_, _)
Concat(rs, k) ==
    IF rs = <<>> THEN <<>>
    ELSE (IF rs[1].body.n >= 1 THEN <<[k |-> k, from |-> 1, to |-> rs[1].body.n]>> ELSE <<>>)
            \o Concat(Tail(rs), k + 1)
PageSizes == [k \in 1..Len(reqs) |-> reqs[k].limit]
\* every page so far came back with as many elements as asked for, and the
\* server reported a further page whenever the limit was not yet reached
EnoughItems ==
    \A k \in 1..Len(resps) :
        /\ Ok(resps[k]) /\ resps[k].body.payload
        /\ resps[k].body.n = reqs[k].limit
        /\ (limit # NoneV /\ CountBefore(out, k + 1) < limit.n => resps[k].body.total > k)

\* C1: in a listing operation the k-th request carries page = k and
\* limit = min(1000, limit - yielded) when a limit is set (yielded = the
\* elements handed over before the request), 1000 when none is set; so with
\* enough items limit=10 ends after one request of size 10 and limit=1500
\* after two, of sizes 1000 and 500.
C1_PageParameters ==
    Listing =>
        /\ \A k \in 1..Len(reqs) :
            /\ reqs[k].page = k
            /\ reqs[k].limit =
                IF limit = NoneV THEN 1000 ELSE Min(1000, limit.n - CountBefore(out, k))
        /\ gpc = "done" /\ EnoughItems /\ limit = IntV(10) => PageSizes = <<10>>
        /\ gpc = "done" /\ EnoughItems /\ limit = IntV(1500) => PageSizes = <<1000, 500>>
C1_Witness ==
    /\ Listing /\ gpc = "done" /\ EnoughItems /\ limit = IntV(1500)
    /\ Len(reqs) = 2 /\ Count(out) = 1500

\* every response so far succeeded and reported the same total_pages
SameTotal ==
    \A k \in 1..Len(resps) :
        Ok(resps[k]) /\ resps[k].body.payload /\ resps[k].body.total = resps[1].body.total

\* C2 (as claimed): with no limit, against a server that reports
\* total_pages = T throughout, a fully consumed listing has handed over the
\* concatenation of the pages in order and has issued exactly T requests.
C2_Original ==
    Listing /\ gpc = "done" /\ limit = NoneV /\ SameTotal =>
        /\ out = Concat(resps, 1)
        /\ Len(reqs) = resps[1].body.total
\* C2 (amended): the same, with exactly max(1, T) requests, for pages
\* 1..max(1, T): the first page is requested also when T = 0.
C2_AllPagesInOrder ==
    Listing /\ gpc = "done" /\ limit = NoneV /\ SameTotal =>
        /\ out = Concat(resps, 1)
        /\ Len(reqs) = Max(1, resps[1].body.total)
        /\ Len(resps) = Len(reqs)
        /\ \A k \in 1..Len(reqs) : reqs[k].page = k
C2_Witness ==
    /\ Listing /\ gpc = "done" /\ limit = NoneV /\ SameTotal
    /\ resps[1].body.total = 2 /\ Len(out) = 2 /\ Count(out) = 1001

\* C3: with a limit L >= 0 the caller is never handed more than L elements,
\* whatever the server sends; once the L-th is handed over no further
\* request exists (the requests are those up to the page it came from), and
\* with L = 0 there is no request and no element.
C3_NeverMoreThanLimit ==
    Listing /\ limit # NoneV =>
        /\ Count(out) <= limit.n
        /\ Count(out) = limit.n /\ limit.n > 0 => Len(reqs) = out[Len(out)].k
        /\ limit.n = 0 => reqs = <<>> /\ out = <<>>
C3_Witness ==
    /\ Listing /\ limit = IntV(1) /\ gpc = "done" /\ Count(out) = 1
    /\ data.n = 2 /\ data.total = 2 /\ Len(reqs) = 1

\* C4: no request asks for a page past the total_pages of the response
\* before it; when the generator has ended with page > total_pages it has
\* issued no request for that page, limit reached or not.
C4_NoRequestPastTotalPages ==
    Listing =>
        /\ \A k \in 2..Len(reqs) : reqs[k].page <= resps[k - 1].body.total
        /\ gpc = "done" /\ resps # <<>> /\ page > resps[Len(resps)].body.total =>
            Len(reqs) = Len(resps) /\ reqs[Len(reqs)].page = page - 1
C4_Witness ==
    /\ Listing /\ gpc = "done" /\ limit = IntV(10) /\ Count(out) = 1
    /\ Len(reqs) = 1 /\ resps[1].body.total = 1

\* the response the operation's outcome was decided on
LastResp == resps[Len(resps)]
Override ==
    /\ op = "fetch_item_quantity" /\ LastResp.status = 404
    /\ LastResp.body.hasmsg /\ LastResp.body.message = "Unknown item"
Failed(e) == result.kind = "raise" /\ result.exc = e
\* the caller holds an object built from a response body
HoldsResult ==
    \/ result.kind = "return" /\ resps # <<>> /\ ~Override
    \/ Listing /\ gpc = "yielded"

\* C5 (as claimed): every operation that has received a response with a JSON
\* body maps it the same way: 401 -> InvalidToken, 403 -> Forbidden,
\* 404 -> NotFound (but for the inventory quantity override), any other
\* non-success status -> unbapiException, and a result is built from the
\* body only on a success status.
C5_UniformErrorMapping ==
    resps # <<>> /\ LastResp.body.json =>
        /\ LastResp.status = 401 => Failed("InvalidToken")
        /\ LastResp.status = 403 => Failed("Forbidden")
        /\ LastResp.status = 404 /\ ~Override => Failed("NotFound")
        /\ ~Ok(LastResp) /\ LastResp.status \notin {401, 403, 404} => Failed("unbapiException")
        /\ HoldsResult => Ok(LastResp)

DocumentedDefault(st) ==
    IF st = 401 THEN "Token is not valid"
    ELSE IF st = 403 THEN "This App is not allowed to access this resource"
    ELSE IF st = 404 THEN "Unknown Guild"
    ELSE "HTTP request failed."

\* C6 (as claimed): the failure raised for a non-success response carries the
\* body's message field when there is one, and otherwise the documented
\* default of the status.  Stated here for the responses whose body is a
\* JSON object and for the statuses the operation looks at (fetch_guild looks
\* at 401 and 404 only, which is C5's matter).
C6_FailureMessage ==
    /\ resps # <<>> /\ ~Ok(LastResp) /\ ~Override /\ LastResp.body.json
    /\ op = "fetch_guild" => LastResp.status \in {401, 404}
    =>
        /\ result.kind = "raise"
        /\ result.msg = IF LastResp.body.hasmsg THEN LastResp.body.message
                        ELSE DocumentedDefault(LastResp.status)

IdOps ==
    {"get_guild", "fetch_guild", "get_user", "fetch_user", "fetch_item",
     "fetch_item_quantity", "add_item", "remove_item"}
\* the operation went on with v as the identifier: v is in the request, or,
\* where no request is made, in the object returned (add_item may stop
\* before its request when the origin user cannot be put in the body)
UsedAs(v) ==
    IF reqs # <<>> THEN reqs[1].ident = v
    ELSE IF result.kind = "return" THEN result.value.id = v
    ELSE op = "add_item" /\ Failed("TypeError")
\* strings that int() rejects and strings it accepts, with their values
Rejected == {<<>>, <<"a">>, <<"-">>, <<" ">>, <<"_">>, <<"7", "a">>, <<"7", "_">>, <<"-", "-">>}
Accepted ==
    {<<<<"7">>, 7>>, <<<<"0">>, 0>>, <<<<"7", "0">>, 70>>, <<<<"0", "7">>, 7>>,
     <<<<" ", "7">>, 7>>, <<<<"7", " ">>, 7>>, <<<<"-", "7">>, 0 - 7>>}

\* C8 (as claimed): at the entry points that take an identifier an int is
\* used unchanged, a numeric string becomes the int it denotes, and a string
\* that is no base-10 integer fails with TypeError.
C8_Original ==
    op \in IdOps =>
        /\ arg.t = "int" => UsedAs(arg)
        /\ arg.t = "str" /\ IntOfStr(arg.s).ok => UsedAs(IntV(IntOfStr(arg.s).n))
        /\ arg.t = "str" /\ ~IntOfStr(arg.s).ok => Failed("TypeError")
\* C8 (amended): the same, but the string that is no base-10 integer fails
\* with the ValueError of int(), before any request is made.
C8_IdentifierStrings ==
    op \in IdOps =>
        /\ arg.t = "int" => UsedAs(arg)
        /\ arg.t = "str" /\ IntOfStr(arg.s).ok => UsedAs(IntV(IntOfStr(arg.s).n))
        /\ \A a \in Accepted : arg = StrV(a[1]) => UsedAs(IntV(a[2]))
        /\ arg.t = "str" /\ ~IntOfStr(arg.s).ok => Failed("ValueError") /\ reqs = <<>>
        /\ \A a \in Rejected : arg = StrV(a) => Failed("ValueError") /\ reqs = <<>>
C8_Witness ==
    /\ op = "fetch_user" /\ arg = StrV(<<"7", "a">>)
    /\ Failed("ValueError") /\ reqs = <<>>

\* C9 (as claimed): an argument that is neither int nor str fails with
\* TypeError when it has no id attribute, and otherwise its id is used,
\* normalized one level (a numeric string id becomes the int it denotes); so
\* every identifier in a request or stored on a returned object is an int.
C9_IdentifiersAreInts ==
    op \in IdOps =>
        /\ arg.t \notin {"int", "str"} /\ ~(arg.t = "obj" /\ arg.has) => Failed("TypeError")
        /\ arg.t = "obj" /\ arg.has /\ arg.id.t = "int" => UsedAs(arg.id)
        /\ arg.t = "obj" /\ arg.has /\ arg.id.t = "str" /\ IntOfStr(arg.id.s).ok =>
            UsedAs(IntV(IntOfStr(arg.id.s).n))
        /\ \A k \in 1..Len(reqs) :
            reqs[k].ident.t = "int" /\ reqs[k].origin.t \in {"int", "none", "noarg"}
        /\ result.kind = "return" /\ result.value.t = "entity" => result.value.id.t = "int"

\* C10 (as claimed): an operation that fails has handed no object to the
\* caller, and no object is built from a non-success response.
C10_NoPartialSuccess ==
    /\ result.kind = "raise" => out = <<>>
    /\ resps # <<>> /\ ~Ok(LastResp) =>
        ~(result.kind = "return" /\ result.value.t = "entity")

NetworkOps ==
    {"fetch_guild", "fetch_permissions", "fetch_user", "fetch_item", "update_balance",
     "set_balance", "fetch_item_quantity", "add_item", "remove_item", "delete"}
\* the identifier argument is one the entry point accepts: an int, a string
\* that denotes an int, or an object that has an id attribute
ValidId(v) ==
    \/ v.t = "int"
    \/ v.t = "str" /\ IntOfStr(v.s).ok
    \/ v.t = "obj" /\ v.has
\* the one request of a plain operation is the operation's own
OneRequest == Len(reqs) = 1 /\ Len(resps) = 1 /\ reqs[1].op = op
\* fetch_user on a success response that holds the balances and no rank
\* returns a User whose rank is None
RankNone ==
    /\ op = "fetch_user" /\ resps # <<>> /\ Ok(LastResp) /\ LastResp.body.json
    /\ LastResp.body.payload /\ LastResp.body.user.rank = NoArg
    => /\ result.kind = "return" /\ result.value.kind = "User"
       /\ result.value.rank = NoneV

BalanceOps == {"update_balance", "set_balance"}
BalanceFields == {"cash", "bank", "total"}
ReturnsUser == result.kind = "return" /\ result.value.t = "entity" /\ result.value.kind = "User"

\* C12: update_balance and set_balance put "Infinity" in the request body
\* for an unlimited cash or bank argument and a finite integer unchanged,
\* each of the two independently; a User built from a response holds the
\* unlimited value where the body holds "Infinity" and the number where it
\* holds a number; so a balance sent and received back unchanged on the wire
\* equals the argument.
C12_BalanceRoundTrip ==
    /\ op \in BalanceOps =>
        /\ OneRequest
        /\ \A f \in {"cash", "bank"} :
            /\ arg[f] = InfV => reqs[1].body[f] = InfinityLiteral
            /\ arg[f].t = "int" => reqs[1].body[f] = arg[f]
            /\ ReturnsUser /\ LastResp.body.user[f] = reqs[1].body[f] =>
                result.value[f] = arg[f]
    /\ ReturnsUser =>
        \A f \in BalanceFields :
            /\ LastResp.body.user[f] = InfinityLiteral => result.value[f] = InfV
            /\ LastResp.body.user[f].t = "int" => result.value[f] = LastResp.body.user[f]
    /\ \A v \in BalanceValues : BalanceOf(WireBalance(v)) = v
C12_Witness ==
    /\ op = "set_balance" /\ arg = Balances(InfV, IntV(0 - 5)) /\ OneRequest
    /\ reqs[1].body = [cash |-> InfinityLiteral, bank |-> IntV(0 - 5)]
    /\ LastResp.body.user = UserData(NoArg, InfinityLiteral, IntV(0 - 5), InfinityLiteral)
    /\ ReturnsUser /\ result.value.cash = InfV /\ result.value.bank = IntV(0 - 5)
    /\ result.value.total = InfV /\ result.value.rank = NoneV

\* the requests so far are no more than max(1, T), T the total_pages of the
\* responses (one request at most before the first response)
RequestBound ==
    Listing => Len(reqs) <= (IF resps = <<>> THEN 1 ELSE Max(1, resps[1].body.total))
Ended == gpc = "done" /\ result = StopIteration /\ Len(resps) = Len(reqs)

\* C13: against a server whose responses all succeed and report the same
\* total_pages = T, every listing the caller keeps consuming reaches its
\* end, whatever the limit and whatever the lengths of the pages (empty
\* ones included), and at no moment has it issued more than max(1, T)
\* requests.
C13_IterationEnds ==
    /\ [](RequestBound)
    /\ (Listing /\ gpc = "created") ~> (Ended /\ RequestBound)
C13_Witness ==
    /\ Listing /\ Ended /\ limit = NoneV /\ Len(reqs) = 2
    /\ resps[1].body.total = 2 /\ resps[1].body.n = 0 /\ resps[2].body.n = 1000
    /\ Count(out) = 1000

\* how many elements of the k-th response the caller has been handed
HandedOf(o, k) == CountBefore(o, k + 1) - CountBefore(o, k)
\* a request is outstanding exactly while a next() call waits for a page
OneOutstanding ==
    Listing =>
        /\ gpc = "request" => Len(reqs) = Len(resps) + 1
        /\ gpc # "request" => Len(reqs) = Len(resps)
        /\ gpc = "created" => reqs = <<>>
\* the steps in which a listing issues a request
LazyStep ==
    /\ op = "none" /\ op' \in ListingOps => reqs' = <<>> /\ gpc' = "created"
    /\ Listing /\ op' = op /\ reqs' # reqs =>
        /\ Len(reqs') = Len(reqs) + 1 /\ gpc' = "request"
        /\ reqs'[Len(reqs')].page = Len(reqs')
        /\ gpc \in {"created", "yielded", "request"}
        /\ reqs # <<>> =>
            /\ Len(resps') = Len(reqs)
            /\ HandedOf(out', Len(reqs)) = resps'[Len(reqs)].body.n
    /\ Listing /\ gpc \in {"yielded", "done", "raised"} /\ op' = "none" => reqs' = <<>>

\* C14: calling a listing operation issues no request; a request is issued
\* only inside a next() call of the caller, one at a time; the request for
\* page p + 1 is issued only when every element of page p has been handed
\* over and the caller has asked for another; while the generator is
\* suspended at an element no request is outstanding, and a caller that
\* stops there leaves with no further request.
C14_Lazy == [](OneOutstanding) /\ [][LazyStep]_vars
C14_Witness ==
    /\ Listing /\ gpc = "request" /\ limit = NoneV /\ Len(reqs) = 2 /\ Len(resps) = 1
    /\ resps[1].body.n = 1001 /\ Count(out) = 1001 /\ reqs[2].page = 2

\* C15 (as claimed): every Item an operation returns holds the guild it
\* belongs to as its parent, and Item.delete on an Item from any of the four
\* operations sends DELETE /guilds/{g}/items/{i} with g that guild's id,
\* i the item's id, and cascade_delete "true" or "false" as asked.
C15_ItemScope ==
    /\ result.kind = "return" /\ result.value.t = "entity" /\ result.value.kind = "Item" =>
        result.value.parent = SelfGuild
    /\ op = "delete" =>
        /\ OneRequest
        /\ reqs[1].ident = arg.item.id
        /\ reqs[1].body.cascade_delete = (IF arg.include_inventories THEN "true" ELSE "false")
        /\ reqs[1].guild = SelfGuild.id

\* the place in the server's collection of element i of the k-th response
ItemNo(k, i) == (reqs[k].page - 1) * reqs[k].limit + i
\* the elements handed over are the items 1, 2, ... of the collection, each
\* once and in order
RECURSIVE InOrderFrom(_, _)
InOrderFrom(o, first) ==
    \/ o = <<>>
    \/ /\ ItemNo(o[1].k, o[1].from) = first
       /\ InOrderFrom(Tail(o), ItemNo(o[1].k, o[1].to) + 1)

\* C16 (as claimed): against a server with a fixed collection of N items
\* that answers (page p, size s) with items (p-1)*s+1 .. p*s and
\* total_pages = ceil(N/s), the elements a listing hands over are the first
\* items of the collection in order, none twice, and a listing consumed to
\* its end has handed over exactly the first min(L, N) (all N with no limit).
C16_FirstItemsOnce ==
    Listing =>
        \A N \in CollectionSizes :
            Served(N) =>
                /\ InOrderFrom(out, 1)
                /\ Count(out) <= N
                /\ gpc = "done" =>
                    Count(out) = (IF limit = NoneV THEN N ELSE Min(limit.n, N))

====
